---------------------------- MODULE Spec2Model ----------------------------
(***************************************************************************)
(* A model of linkedin_industry_code.py: one run of the driver fetches a   *)
(* page, flattens the rows of all its tables into one list of rows         *)
(* prefixed by the table's name, previews the list and writes it to a CSV  *)
(* file.                                                                   *)
(*                                                                         *)
(* Text is a sequence of one-character strings.  An element's content is   *)
(* the sequence of its text fragments, in document order.                  *)
(***************************************************************************)
EXTENDS Integers, Sequences, FiniteSets, TLC

VARIABLES
    doc,            \* the document served at the URL: its nodes in document order
    prior,          \* the output file as it was before the run
    pc,             \* position of the driver (__main__)
    fetch,          \* how requests.get / raise_for_status ended
    table_names,    \* table_name of each iteration of the loop over tables
    joined_tables,  \* the value extract_and_join_tables returned
    preview,        \* the rows the driver printed
    more,           \* the K of "... (and K more rows)"
    total,          \* the count of "Total N rows extracted"
    data,           \* write_to_csv's argument
    file,           \* the destination file: [exists, content]
    handle,         \* the handle write_to_csv opened: "none", "open", "closed"
    wpc,            \* position inside write_to_csv
    written,        \* number of rows of data the loop of write_to_csv has written
    wresult,        \* what the last call of write_to_csv reported
    calls           \* number of calls of write_to_csv

vars == <<doc, prior, pc, fetch, table_names, joined_tables, preview, more, total,
          data, file, handle, wpc, written, wresult, calls>>

(***************************************************************************)
(* Bounds of the model.                                                    *)
(***************************************************************************)
MaxNodes == 3

MaxData == 2

MaxCalls == 2

(***************************************************************************)
(* Text.                                                                   *)
(***************************************************************************)
Whitespace == {" ", "\t", "\n", "\r"}

RECURSIVE LStrip(_)
LStrip(s) == IF s # <<>> /\ Head(s) \in Whitespace THEN LStrip(Tail(s)) ELSE s

RECURSIVE RStrip(_)
RStrip(s) ==
    IF s # <<>> /\ s[Len(s)] \in Whitespace THEN RStrip(SubSeq(s, 1, Len(s) - 1)) ELSE s

\* str.strip()
Strip(s) == RStrip(LStrip(s))

\* element.get_text(strip=True): every text fragment stripped, the empty ones
\* dropped, the rest joined with no separator
RECURSIVE GetTextStrip(_)
GetTextStrip(frags) ==
    IF frags = <<>> THEN <<>>
    ELSE Strip(Head(frags)) \o GetTextStrip(Tail(frags))

Digits == <<"0", "1", "2", "3", "4", "5", "6", "7", "8", "9">>

\* str(n) of a natural number
RECURSIVE Decimal(_)
Decimal(n) ==
    IF n < 10 THEN <<Digits[n + 1]>>
    ELSE Decimal(n \div 10) \o <<Digits[(n % 10) + 1]>>

\* f"Table {i + 1}"
FallbackName(i) == <<"T", "a", "b", "l", "e", " ">> \o Decimal(i + 1)

(***************************************************************************)
(* The document.  A node is a heading or a paragraph with its text         *)
(* fragments, or a table with its captions (none or one) and its tr        *)
(* elements, each the sequence of its th/td cells.                         *)
(***************************************************************************)
HeadingTags == {"h1", "h2", "h3", "h4", "h5", "h6"}

TextNode(tag, frags) == [tag |-> tag, text |-> frags, caption |-> <<>>, rows |-> <<>>]

TableNode(caps, rows) == [tag |-> "table", text |-> <<>>, caption |-> caps, rows |-> rows]

CellA == << <<" ", "5", "1", "\n">> >>

CellB == << <<"F", ",", " ">>, <<" ", "\"", "x">> >>

CellBlank == << <<" ">> >>

RowA == <<CellA, CellB>>

RowB == <<CellA>>

RowBlank == <<CellBlank>>

RowNoCells == <<>>

CaptionC == << <<" ", "C", "a", "p">> >>

CaptionBlank == << <<" ", "\n">> >>

LongRows == <<RowB, RowA, RowB, RowB, RowNoCells, RowB>>

DocNodes ==
    { TextNode("h2", << <<" ", "A", " ">>, <<"b", " ">> >>),
      TextNode("h6", << <<" ">> >>),
      TextNode("p", << <<"P">> >>),
      TableNode(<<>>, <<>>),
      TableNode(<<>>, <<RowA, RowNoCells, RowA>>),
      TableNode(<<CaptionBlank>>, <<RowB, RowBlank>>),
      TableNode(<<CaptionC>>, LongRows) }

SeqsUpTo(S, n) == UNION {[1..k -> S] : k \in 0..n}

Docs == SeqsUpTo(DocNodes, MaxNodes)

NoFile == [exists |-> FALSE, content |-> <<>>]

OldFile == [exists |-> TRUE, content |-> <<"o", "l", "d", "\r", "\n">>]

PriorFiles == {NoFile, OldFile}

(***************************************************************************)
(* extract_and_join_tables                                                 *)
(***************************************************************************)
\* soup.find_all('table'): the positions of the tables, in document order
RECURSIVE FindAllTables(_, _)
FindAllTables(d, from) ==
    IF from > Len(d) THEN <<>>
    ELSE IF d[from].tag = "table" THEN <<from>> \o FindAllTables(d, from + 1)
    ELSE FindAllTables(d, from + 1)

\* table.find_previous(['h1', ..., 'h6']): the position of the first heading met
\* going backward from the table, 0 for None
RECURSIVE FindPrevious(_, _)
FindPrevious(d, pos) ==
    IF pos <= 1 THEN 0
    ELSE IF d[pos - 1].tag \in HeadingTags THEN pos - 1
    ELSE FindPrevious(d, pos - 1)

TableNameCaptionFirst(d, pos, i) ==
    LET h == FindPrevious(d, pos)
        caps == d[pos].caption
    IN  IF caps # <<>> /\ GetTextStrip(caps[1]) # <<>> THEN GetTextStrip(caps[1])
        ELSE IF h # 0 /\ GetTextStrip(d[h].text) # <<>> THEN GetTextStrip(d[h].text)
        ELSE FallbackName(i)

\* the table_name of the table at position pos, the i-th (0-based) of the tables
TableName(d, pos, i) ==
    LET h == FindPrevious(d, pos)
        caps == d[pos].caption
    IN  IF h # 0 /\ GetTextStrip(d[h].text) # <<>> THEN GetTextStrip(d[h].text)
        ELSE IF caps # <<>> /\ GetTextStrip(caps[1]) # <<>> THEN GetTextStrip(caps[1])
        ELSE FallbackName(i)

\* row_cells of one tr
RowCells(row) == [k \in 1..Len(row) |-> GetTextStrip(row[k])]

KeepRowAlways(row_cells) == TRUE

\* if row_cells:
KeepRow(row_cells) == row_cells # <<>>

AppendRowOnce(acc, row) ==
    IF \E k \in 1..Len(acc) : acc[k] = row THEN acc ELSE Append(acc, row)

\* all_combined_rows.append(...)
AppendRow(acc, row) == Append(acc, row)

\* for row in rows: ...
RECURSIVE RowLoop(_, _, _, _)
RowLoop(rows, r, name, acc) ==
    IF r > Len(rows) THEN acc
    ELSE LET row_cells == RowCells(rows[r])
         IN  RowLoop(rows, r + 1, name,
                     IF KeepRow(row_cells) THEN AppendRow(acc, <<name>> \o row_cells)
                     ELSE acc)

\* for i, table in enumerate(tables): ...  (k = i + 1); yields the names and the rows
RECURSIVE TableLoop(_, _, _, _)
TableLoop(d, tables, k, st) ==
    IF k > Len(tables) THEN st
    ELSE LET name == TableName(d, tables[k], k - 1)
         IN  TableLoop(d, tables, k + 1,
                 [names |-> Append(st.names, name),
                  rows  |-> RowLoop(d[tables[k]].rows, 1, name, st.rows)])

NoTablesPlaceholder == [names |-> <<>>, rows |-> << <<FallbackName(0)>> >>]

\* if not tables: return []
NoTables == [names |-> <<>>, rows |-> <<>>]

\* the body of extract_and_join_tables after a successful fetch
ExtractTables(d) ==
    LET tables == FindAllTables(d, 1)
    IN  IF tables = <<>> THEN NoTables
        ELSE TableLoop(d, tables, 1, [names |-> <<>>, rows |-> <<>>])

StatusCodes == {200, 404, 503}

\* response.raise_for_status()
RaisesForStatus(status) == 400 <= status /\ status < 600

RequestExceptions == {"ConnectionError", "HTTPError"}

\* except requests.exceptions.RequestException
ExceptRequestException(e) == e \in RequestExceptions

OSErrors == {"PermissionError", "OSError"}

ExceptPermissionErrorOnly(e) == e = "PermissionError"

\* except IOError
ExceptIOError(e) == e \in OSErrors

(***************************************************************************)
(* csv.writer(csvfile), the excel dialect: delimiter ',', quotechar '"',   *)
(* doublequote, lineterminator '\r\n', QUOTE_MINIMAL.                      *)
(***************************************************************************)
Delimiter == ","

QuoteChar == "\""

LineTerminator == <<"\r", "\n">>

NeedsQuote(f) ==
    \E k \in 1..Len(f) : f[k] \in {Delimiter, QuoteChar, "\r", "\n"}

RECURSIVE DoubleQuotes(_)
DoubleQuotes(f) ==
    IF f = <<>> THEN <<>>
    ELSE (IF Head(f) = QuoteChar THEN <<QuoteChar, QuoteChar>> ELSE <<Head(f)>>)
         \o DoubleQuotes(Tail(f))

QuoteFieldNoDoubling(f) ==
    IF NeedsQuote(f) THEN <<QuoteChar>> \o f \o <<QuoteChar>> ELSE f

QuoteField(f) ==
    IF NeedsQuote(f) THEN <<QuoteChar>> \o DoubleQuotes(f) \o <<QuoteChar>> ELSE f

RECURSIVE JoinFields(_)
JoinFields(row) ==
    IF row = <<>> THEN <<>>
    ELSE IF Len(row) = 1 THEN QuoteField(row[1])
    ELSE QuoteField(row[1]) \o <<Delimiter>> \o JoinFields(Tail(row))

\* csv_writer.writerow(row): the text of one record
WriteRow(row) ==
    (IF Len(row) = 1 /\ row[1] = <<>> THEN <<QuoteChar, QuoteChar>> ELSE JoinFields(row))
    \o LineTerminator


(***************************************************************************)
(* The driver's inputs and the initial state.                              *)
(***************************************************************************)
PreviewLimit == 10

MoreRowsOffset == 10

Init ==
    /\ doc \in Docs
    /\ prior \in PriorFiles
    /\ file = prior
    /\ pc = "start"
    /\ fetch = "pending"
    /\ table_names = <<>>
    /\ joined_tables = <<>>
    /\ preview = <<>>
    /\ more = 0
    /\ total = 0
    /\ data = <<>>
    /\ handle = "none"
    /\ wpc = "idle"
    /\ written = 0
    /\ wresult = "none"
    /\ calls = 0

writerVars == <<data, file, handle, wpc, written, wresult, calls>>

(***************************************************************************)
(* extract_and_join_tables(target_url)                                     *)
(***************************************************************************)
\* requests.get(url) is issued; no timeout is given
Start ==
    /\ pc = "start"
    /\ pc' = "get"
    /\ UNCHANGED <<doc, prior, fetch, table_names, joined_tables, preview, more, total>>
    /\ UNCHANGED writerVars

\* an exception e is raised inside the try block of extract_and_join_tables
FetchRaises(e, outcome) ==
    /\ fetch' = outcome
    /\ IF ExceptRequestException(e)
       THEN /\ joined_tables' = <<>>
            /\ pc' = "main"
       ELSE /\ joined_tables' = joined_tables
            /\ pc' = "crashed"
    /\ UNCHANGED <<doc, prior, table_names, preview, more, total>>
    /\ UNCHANGED writerVars

\* requests.get raises (no connection, DNS failure, ...)
GetFails ==
    /\ pc = "get"
    /\ FetchRaises("ConnectionError", "transport_error")

\* requests.get returns a response with an error status: raise_for_status raises
GetErrorStatus ==
    /\ pc = "get"
    /\ \E status \in StatusCodes :
         /\ RaisesForStatus(status)
         /\ FetchRaises("HTTPError", "http_error")

\* requests.get returns the document: the rest of extract_and_join_tables runs
GetDocument ==
    /\ pc = "get"
    /\ \E status \in StatusCodes :
         /\ ~RaisesForStatus(status)
         /\ LET r == ExtractTables(doc)
            IN  /\ table_names' = r.names
                /\ joined_tables' = r.rows
         /\ fetch' = "ok"
         /\ pc' = "main"
    /\ UNCHANGED <<doc, prior, preview, more, total>>
    /\ UNCHANGED writerVars

(***************************************************************************)
(* __main__                                                                *)
(***************************************************************************)
TruthyAlways(rows) == TRUE

\* if joined_tables:
Truthy(rows) == rows # <<>>

\* for i, row in enumerate(joined_tables): if i < 10: print(row) else: break
RECURSIVE PreviewLoop(_, _, _)
PreviewLoop(rows, i, printed) ==
    IF i >= Len(rows) THEN printed
    ELSE IF i < PreviewLimit THEN PreviewLoop(rows, i + 1, Append(printed, rows[i + 1]))
    ELSE printed

\* len(joined_tables) - 10
MoreRows(rows) == Len(rows) - MoreRowsOffset

MainPreview ==
    /\ pc = "main"
    /\ Truthy(joined_tables)
    /\ preview' = PreviewLoop(joined_tables, 0, <<>>)
    /\ more' = MoreRows(joined_tables)
    /\ total' = Len(joined_tables)
    /\ pc' = "export"
    /\ UNCHANGED <<doc, prior, fetch, table_names, joined_tables>>
    /\ UNCHANGED writerVars

\* else: print("Failed to extract or join any tables, ...")
MainEmpty ==
    /\ pc = "main"
    /\ ~Truthy(joined_tables)
    /\ pc' = "done"
    /\ UNCHANGED <<doc, prior, fetch, table_names, joined_tables, preview, more, total>>
    /\ UNCHANGED writerVars

\* write_to_csv(joined_tables, output_csv_filename) is called
MainExport ==
    /\ pc = "export"
    /\ data' = joined_tables
    /\ wpc' = "open"
    /\ written' = 0
    /\ calls' = calls + 1
    /\ pc' = "write"
    /\ UNCHANGED <<doc, prior, fetch, table_names, joined_tables, preview, more, total>>
    /\ UNCHANGED <<file, handle, wresult>>

\* write_to_csv has returned: the run ends
MainReturn ==
    /\ pc = "write"
    /\ wpc = "returned"
    /\ pc' = "done"
    /\ UNCHANGED <<doc, prior, fetch, table_names, joined_tables, preview, more, total>>
    /\ UNCHANGED writerVars

(***************************************************************************)
(* write_to_csv(data, filename)                                            *)
(***************************************************************************)
OpenAppend(f) == [exists |-> TRUE, content |-> f.content]

\* open(filename, 'w', newline='', encoding='utf-8'): created or truncated
OpenTruncate(f) == [exists |-> TRUE, content |-> <<>>]

LeaveOpen(h) == h

\* leaving the with block closes the handle, also when an exception leaves it
ExitWith(h) == "closed"

\* an exception e leaves the try block of write_to_csv
WriterRaises(e) ==
    IF ExceptIOError(e)
    THEN /\ wresult' = "error"
         /\ wpc' = "returned"
         /\ pc' = pc
    ELSE /\ wresult' = "unhandled"
         /\ wpc' = "raised"
         /\ pc' = "crashed"

unwritten == <<doc, prior, fetch, table_names, joined_tables, preview, more, total>>

WriteOpenOk ==
    /\ wpc = "open"
    /\ file' = OpenTruncate(file)
    /\ handle' = "open"
    /\ wpc' = "rows"
    /\ UNCHANGED <<pc, data, written, wresult, calls>>
    /\ UNCHANGED unwritten

\* open raises (no permission, invalid path): nothing was opened
WriteOpenFail ==
    /\ wpc = "open"
    /\ WriterRaises("PermissionError")
    /\ UNCHANGED <<data, file, handle, written, calls>>
    /\ UNCHANGED unwritten

\* csv_writer.writerow(row) of the next row
WriteRowOk ==
    /\ wpc = "rows"
    /\ written < Len(data)
    /\ file' = [file EXCEPT !.content = @ \o WriteRow(data[written + 1])]
    /\ written' = written + 1
    /\ UNCHANGED <<pc, data, handle, wpc, wresult, calls>>
    /\ UNCHANGED unwritten

\* writing a row raises (disk full, ...): the with block is left by the exception
\* (the file keeps the records written so far)
WriteRowFail ==
    /\ wpc = "rows"
    /\ written < Len(data)
    /\ handle' = ExitWith(handle)
    /\ WriterRaises("OSError")
    /\ UNCHANGED <<data, file, written, calls>>
    /\ UNCHANGED unwritten

\* the loop is over: the with block closes the file, the success line is printed
WriteCloseOk ==
    /\ wpc = "rows"
    /\ written = Len(data)
    /\ handle' = ExitWith(handle)
    /\ wresult' = "ok"
    /\ wpc' = "returned"
    /\ UNCHANGED <<pc, data, file, written, calls>>
    /\ UNCHANGED unwritten

\* the flush of the close raises: the handle is closed all the same
WriteCloseFail ==
    /\ wpc = "rows"
    /\ written = Len(data)
    /\ handle' = ExitWith(handle)
    /\ WriterRaises("OSError")
    /\ UNCHANGED <<data, file, written, calls>>
    /\ UNCHANGED unwritten

WriterStep ==
    \/ WriteOpenOk
    \/ WriteOpenFail
    \/ WriteRowOk
    \/ WriteRowFail
    \/ WriteCloseOk
    \/ WriteCloseFail

\* every step the program takes by itself; the answer to the GET is the network's
ProgramStep ==
    \/ Start
    \/ MainPreview
    \/ MainEmpty
    \/ MainExport
    \/ MainReturn
    \/ WriterStep

Next ==
    \/ GetFails
    \/ GetErrorStatus
    \/ GetDocument
    \/ ProgramStep

Spec == Init /\ [][Next]_vars

\* the interpreter runs the program on; nothing makes the GET return
FairSpec == Spec /\ WF_vars(ProgramStep)

(***************************************************************************)
(* write_to_csv on its own: any rows, called again on the same file.       *)
(***************************************************************************)
Name == <<"T", " ", "1">>

WriterRows ==
    { <<Name, <<"a">>>>,
      <<Name, <<"a", ",", "b">>, <<>>>>,
      <<<<"\"", "a", "\"">>, <<>>>>,
      <<Name, <<"a", "\n", "b">>, <<"\r">>>>,
      <<<<>>, <<>>>>,
      <<<<",", "\"", "\r", "\n">>, <<"\"">>>>,
      <<Name, <<"\"", "\"", ",">>>> }

WriterInputs == SeqsUpTo(WriterRows, MaxData)

InitWriter ==
    /\ doc = <<>>
    /\ prior \in PriorFiles
    /\ file = prior
    /\ pc = "caller"
    /\ fetch = "pending"
    /\ table_names = <<>>
    /\ joined_tables = <<>>
    /\ preview = <<>>
    /\ more = 0
    /\ total = 0
    /\ data \in WriterInputs
    /\ handle = "none"
    /\ wpc = "open"
    /\ written = 0
    /\ wresult = "none"
    /\ calls = 1

\* write_to_csv is called again with the same data and filename
CallAgain ==
    /\ pc = "caller"
    /\ wpc = "returned"
    /\ calls < MaxCalls
    /\ wpc' = "open"
    /\ written' = 0
    /\ calls' = calls + 1
    /\ UNCHANGED <<pc, data, file, handle, wresult>>
    /\ UNCHANGED unwritten

NextWriter ==
    \/ WriterStep
    \/ CallAgain

WriterSpec == InitWriter /\ [][NextWriter]_vars


(***************************************************************************)
(* Reading a CSV text back: csv.reader of the same dialect on the file     *)
(* opened with newline=''.  The file is iterated line by line (a line ends *)
(* at "\n", at "\r\n", or at a "\r" no "\n" follows) and every character   *)
(* goes through the reader's state machine, an end-of-line mark after each *)
(* line.                                                                   *)
(***************************************************************************)
EOL == "EOL"

RECURSIVE SplitLines(_, _)
SplitLines(s, cur) ==
    IF s = <<>> THEN (IF cur = <<>> THEN <<>> ELSE <<cur>>)
    ELSE IF Head(s) = "\n" THEN <<Append(cur, "\n")>> \o SplitLines(Tail(s), <<>>)
    ELSE IF Head(s) = "\r" THEN
        IF Len(s) >= 2 /\ s[2] = "\n"
        THEN <<cur \o <<"\r", "\n">>>> \o SplitLines(Tail(Tail(s)), <<>>)
        ELSE <<Append(cur, "\r")>> \o SplitLines(Tail(s), <<>>)
    ELSE SplitLines(Tail(s), Append(cur, Head(s)))

ReaderReset == [state |-> "START_RECORD", field |-> <<>>, fields |-> <<>>]

SaveField(st) == [st EXCEPT !.fields = Append(@, st.field), !.field = <<>>]

AddChar(st, c) == [st EXCEPT !.field = Append(@, c)]

AfterNewline(c) == IF c = EOL THEN "START_RECORD" ELSE "EAT_CRNL"

ProcessChar(st, c) ==
    LET newline == c \in {"\n", "\r", EOL}
        s == IF st.state = "START_RECORD" /\ ~newline THEN "START_FIELD" ELSE st.state
    IN  CASE s = "START_RECORD" ->
               IF c = EOL THEN st ELSE [st EXCEPT !.state = "EAT_CRNL"]
          [] s = "START_FIELD" ->
               IF newline THEN [SaveField(st) EXCEPT !.state = AfterNewline(c)]
               ELSE IF c = QuoteChar THEN [st EXCEPT !.state = "IN_QUOTED_FIELD"]
               ELSE IF c = Delimiter THEN [SaveField(st) EXCEPT !.state = "START_FIELD"]
               ELSE [AddChar(st, c) EXCEPT !.state = "IN_FIELD"]
          [] s = "IN_FIELD" ->
               IF newline THEN [SaveField(st) EXCEPT !.state = AfterNewline(c)]
               ELSE IF c = Delimiter THEN [SaveField(st) EXCEPT !.state = "START_FIELD"]
               ELSE AddChar(st, c)
          [] s = "IN_QUOTED_FIELD" ->
               IF c = EOL THEN st
               ELSE IF c = QuoteChar THEN [st EXCEPT !.state = "QUOTE_IN_QUOTED_FIELD"]
               ELSE AddChar(st, c)
          [] s = "QUOTE_IN_QUOTED_FIELD" ->
               IF c = QuoteChar THEN [AddChar(st, c) EXCEPT !.state = "IN_QUOTED_FIELD"]
               ELSE IF c = Delimiter THEN [SaveField(st) EXCEPT !.state = "START_FIELD"]
               ELSE IF newline THEN [SaveField(st) EXCEPT !.state = AfterNewline(c)]
               ELSE [AddChar(st, c) EXCEPT !.state = "IN_FIELD"]
          [] s = "EAT_CRNL" ->
               IF c \in {"\n", "\r"} THEN st
               ELSE IF c = EOL THEN [st EXCEPT !.state = "START_RECORD"]
               ELSE [st EXCEPT !.state = "ERROR"]
          [] OTHER -> st

RECURSIVE ProcessLine(_, _)
ProcessLine(st, line) ==
    IF line = <<>> THEN ProcessChar(st, EOL)
    ELSE ProcessLine(ProcessChar(st, Head(line)), Tail(line))

RECURSIVE Reader(_, _, _)
Reader(lines, st, records) ==
    IF lines = <<>> THEN
        IF st.field # <<>> \/ st.state = "IN_QUOTED_FIELD"
        THEN Append(records, SaveField(st).fields)
        ELSE records
    ELSE LET after == ProcessLine(st, Head(lines))
         IN  IF after.state = "START_RECORD"
             THEN Reader(Tail(lines), ReaderReset, Append(records, after.fields))
             ELSE Reader(Tail(lines), after, records)

\* list(csv.reader(open(filename, newline='', encoding='utf-8')))
ReadCsv(content) == Reader(SplitLines(content, <<>>), ReaderReset, <<>>)

(***************************************************************************)
(* What the claims speak of.                                               *)
(***************************************************************************)
Min(a, b) == IF a <= b THEN a ELSE b

\* the tables of the document, by position
TablePositions == {p \in 1..Len(doc) : doc[p].tag = "table"}

\* the 0-based index of the table at position p among all tables
TableIndex(p) == Cardinality({q \in TablePositions : q < p})

\* the headings before position p
HeadingsBefore(p) == {k \in 1..(p - 1) : doc[k].tag \in HeadingTags}

\* the nearest of them
Nearest(H) == CHOOSE k \in H : \A j \in H : j <= k

\* the name the naming rule gives the table at position p
RuleName(p) ==
    LET H == HeadingsBefore(p)
    IN  IF H # {} /\ GetTextStrip(doc[Nearest(H)].text) # <<>>
        THEN GetTextStrip(doc[Nearest(H)].text)
        ELSE IF doc[p].caption # <<>> /\ GetTextStrip(doc[p].caption[1]) # <<>>
        THEN GetTextStrip(doc[p].caption[1])
        ELSE <<"T", "a", "b", "l", "e", " ">> \o Decimal(TableIndex(p) + 1)

\* the row elements with at least one cell: <<position of the table, row number>>
SourceRows ==
    {a \in UNION {{<<p, r>> : r \in 1..Len(doc[p].rows)} : p \in TablePositions} :
        Len(doc[a[1]].rows[a[2]]) >= 1}

\* a is b or comes before it: table order, then row order within the table
NotAfter(a, b) == a[1] < b[1] \/ (a[1] = b[1] /\ a[2] <= b[2])

\* the 1-based place of source row a among the source rows S
Rank(S, a) == Cardinality({b \in S : NotAfter(b, a)})

CellTexts(a) ==
    LET row == doc[a[1]].rows[a[2]]
    IN  [k \in 1..Len(row) |-> GetTextStrip(row[k])]

FetchFailed == fetch \in {"transport_error", "http_error"}

RunOver == pc = "done"

\* C1: after a successful fetch every table of the document, the i-th (0-based) among
\* all tables, got exactly one name: the text of the nearest preceding heading when
\* there is one and its text is not empty, else the table's non-empty caption text,
\* else "Table " + (i+1); only the nearest heading is consulted.
C1_NamingRule ==
    fetch = "ok" =>
        /\ Len(table_names) = Cardinality(TablePositions)
        /\ \A p \in TablePositions : table_names[TableIndex(p) + 1] = RuleName(p)

\* a second table, under an empty heading that follows a non-empty one, with no
\* caption: it is named "Table 2" although its predecessor contributed no row
C1_Witness ==
    /\ fetch = "ok"
    /\ \E p \in TablePositions :
         /\ HeadingsBefore(p) # {}
         /\ GetTextStrip(doc[Nearest(HeadingsBefore(p))].text) = <<>>
         /\ doc[p].caption = <<>>
         /\ TableIndex(p) = 1
         /\ table_names[2] = <<"T", "a", "b", "l", "e", " ", "2">>
         /\ \E q \in TablePositions : q < p /\ doc[q].rows = <<>>

\* C2: the returned sequence is the concatenation, over the tables in document order,
\* of each table's rows with at least one cell, in row order, each prefixed by the
\* table's name; nothing is reordered, merged or dropped as a duplicate.
C2_OrderPreserved ==
    fetch = "ok" =>
        LET S == SourceRows
        IN  /\ Len(joined_tables) = Cardinality(S)
            /\ \A a \in S :
                 joined_tables[Rank(S, a)] =
                     <<table_names[TableIndex(a[1]) + 1]>> \o CellTexts(a)

\* two tables contribute rows and two equal rows both appear
C2_Witness ==
    /\ fetch = "ok"
    /\ \E a, b \in SourceRows : a[1] # b[1]
    /\ \E i, j \in 1..Len(joined_tables) : i < j /\ joined_tables[i] = joined_tables[j]

\* C3: every returned row, and every row handed to the writer, is the table name as
\* one field followed by the cells of one row element that has cells: its length is
\* 1 + the number of cells, at least 2; rows without cells and tables without rows
\* contribute nothing.
C3_RowShape ==
    /\ fetch = "ok" =>
        LET S == SourceRows
        IN  /\ Len(joined_tables) = Cardinality(S)
            /\ \A k \in 1..Len(joined_tables) : Len(joined_tables[k]) >= 2
            /\ \A a \in S :
                 Len(joined_tables[Rank(S, a)]) = 1 + Len(doc[a[1]].rows[a[2]])
    /\ \A k \in 1..Len(data) : Len(data[k]) >= 2

\* a table without rows and a row without cells are in the document, rows were written
C3_Witness ==
    /\ fetch = "ok"
    /\ \E p \in TablePositions : doc[p].rows = <<>>
    /\ \E p \in TablePositions : \E r \in 1..Len(doc[p].rows) : doc[p].rows[r] = <<>>
    /\ joined_tables # <<>>
    /\ wresult = "ok"

\* C4: when the GET fails (transport failure or error status) the result is empty,
\* the writer is never called and the output file stays as it was before the run.
C4_FetchFailure ==
    FetchFailed =>
        /\ joined_tables = <<>>
        /\ calls = 0
        /\ wpc = "idle"
        /\ handle = "none"
        /\ file = prior

\* a run that got an error status is over and the file that existed is untouched
C4_Witness ==
    /\ fetch = "http_error"
    /\ RunOver
    /\ prior.exists
    /\ file = prior

\* C5: when the fetch succeeds and the document holds no table the result is empty,
\* nothing is raised, and the writer is not called or leaves a file of no record.
C5_NoTables ==
    (fetch = "ok" /\ TablePositions = {}) =>
        /\ joined_tables = <<>>
        /\ table_names = <<>>
        /\ pc # "crashed"
        /\ (calls = 0 \/ (file.exists /\ file.content = <<>>))

\* a run on a document of headings and paragraphs only is over
C5_Witness ==
    /\ fetch = "ok"
    /\ doc # <<>>
    /\ TablePositions = {}
    /\ RunOver

\* C6 as stated: every run eventually reaches completion.
C6_AlwaysCompletes == <>RunOver

\* C6 amended: no failure escapes its handler, and every run whose GET has returned
\* (with a response or by raising) eventually reaches completion.
C6_CompletesOnceFetched ==
    /\ [](pc # "crashed")
    /\ (fetch # "pending") ~> RunOver

\* a run is over after a failure while writing a row was caught
C6_Witness ==
    /\ RunOver
    /\ wresult = "error"
    /\ handle = "closed"
    /\ written < Len(data)

\* C7: after a call of write_to_csv without I/O failure, reading the file back with
\* the same dialect yields the rows that were written, field for field, in order.
C7_RoundTrip ==
    (wpc = "returned" /\ wresult = "ok") => ReadCsv(file.content) = data

\* rows with the delimiter, the quote character and line breaks were written
C7_Witness ==
    /\ wpc = "returned"
    /\ wresult = "ok"
    /\ \E k \in 1..Len(data) : data[k] = <<<<",", "\"", "\r", "\n">>, <<"\"">>>>
    /\ \E k \in 1..Len(data) : data[k] = <<Name, <<"a", "\n", "b">>, <<"\r">>>>

RECURSIVE Records(_)
Records(rows) == IF rows = <<>> THEN <<>> ELSE WriteRow(Head(rows)) \o Records(Tail(rows))

\* C8: after a successful call the file holds exactly the records of the input, in
\* input order, whatever it held before: a second call leaves what one call leaves.
C8_TruncateAndRewrite ==
    (wpc = "returned" /\ wresult = "ok") =>
        /\ file.exists
        /\ file.content = Records(data)

\* the second successful call on a file that held other text before the first
C8_Witness ==
    /\ wpc = "returned"
    /\ wresult = "ok"
    /\ calls = 2
    /\ data # <<>>
    /\ prior = OldFile

\* C9: whenever write_to_csv has returned, no handle it opened is still open.
C9_HandleClosed ==
    wpc \in {"returned", "raised"} => handle # "open"

\* write_to_csv returned after a failure in the middle of the rows
C9_Witness ==
    /\ wpc = "returned"
    /\ wresult = "error"
    /\ written >= 1
    /\ written < Len(data)
    /\ handle = "closed"

\* C10: for a result of n > 0 rows the driver previews the first min(n, 10) rows and
\* reports K = n minus the number of rows previewed, never negative, and the total n.
C10_PreviewCount ==
    (pc \in {"export", "write", "done"} /\ joined_tables # <<>>) =>
        LET n == Len(joined_tables)
        IN  /\ preview = SubSeq(joined_tables, 1, Min(n, 10))
            /\ more = n - Len(preview)
            /\ more >= 0
            /\ total = n

=============================================================================
